---- MODULE Spec2Model ----
(***************************************************************************)
(* Model of src/linkextractor.py: the crawl loop of                        *)
(* LinkExtractor.get_all_domain_links with the URL helpers it calls, and   *)
(* the month statistics of LinkExtractor.get_month_statistics.             *)
(*                                                                         *)
(* A URL (a Python str) is a sequence of one-character strings, so that    *)
(* lower(), endswith(), split(), `in` and the parsing done by urllib are   *)
(* computed character by character.                                        *)
(***************************************************************************)
EXTENDS Integers, Sequences, FiniteSets, TLC

\* v named x in F(x), worked out once
Let(v, F(_)) == CHOOSE r \in { F(x) : x \in {v} } : TRUE

(***************************************************************************)
(* Python str primitives                                                   *)
(***************************************************************************)

UpperChars == <<"A","B","C","D","E","F","G","H","I","J","K","L","M",
                "N","O","P","Q","R","S","T","U","V","W","X","Y","Z","É">>

LowerChars == <<"a","b","c","d","e","f","g","h","i","j","k","l","m",
                "n","o","p","q","r","s","t","u","v","w","x","y","z","é">>

UpperSet == { UpperChars[i] : i \in 1..Len(UpperChars) }

\* str.lower() on one character
LowerChar(c) ==
    IF c \in UpperSet
    THEN LowerChars[CHOOSE i \in 1..Len(UpperChars) : UpperChars[i] = c]
    ELSE c

\* str.lower()
Lower(s) == [i \in 1..Len(s) |-> LowerChar(s[i])]

\* str.startswith(prefix)
StartsWith(s, prefix) ==
    /\ Len(s) >= Len(prefix)
    /\ SubSeq(s, 1, Len(prefix)) = prefix

\* str.endswith(suffix)
EndsWith(s, suffix) ==
    /\ Len(s) >= Len(suffix)
    /\ SubSeq(s, Len(s) - Len(suffix) + 1, Len(s)) = suffix

\* `sub in s` for two str
Contains(s, sub) ==
    \E i \in 1..(Len(s) - Len(sub) + 1) : SubSeq(s, i, i + Len(sub) - 1) = sub

\* s.find(c) for a set of characters: the first index holding one of them
\* at or after position from, Len(s) + 1 when there is none
FindFirst(s, chars, from) ==
    IF \E i \in from..Len(s) : s[i] \in chars
    THEN CHOOSE i \in from..Len(s) :
             /\ s[i] \in chars
             /\ \A j \in from..(i - 1) : s[j] \notin chars
    ELSE Len(s) + 1

\* s.split(c)[0]
SplitHead(s, c) == Let(FindFirst(s, {c}, 1), LAMBDA at : SubSeq(s, 1, at - 1))

\* str.strip()
Strip(s) ==
    IF \A i \in 1..Len(s) : s[i] = " "
    THEN << >>
    ELSE LET first == CHOOSE i \in 1..Len(s) :
                          s[i] # " " /\ \A j \in 1..(i - 1) : s[j] = " "
             last  == CHOOSE i \in 1..Len(s) :
                          s[i] # " " /\ \A j \in (i + 1)..Len(s) : s[j] = " "
         IN  SubSeq(s, first, last)

(***************************************************************************)
(* urllib.parse as used by LinkExtractor                                   *)
(***************************************************************************)

SchemeChars == {LowerChars[i] : i \in 1..26} \cup {UpperChars[i] : i \in 1..26}
                   \cup {"0","1","2","3","4","5","6","7","8","9","+","-","."}

HTTP == <<"h","t","t","p">>

\* the schemes of urllib.parse.uses_relative / uses_netloc that occur here
UsesRelative == {HTTP, << >>}

Digits == {"0","1","2","3","4","5","6","7","8","9"}

\* urlsplit: the scheme before the first ":" (None when the URL has none) and
\* what follows it
SplitScheme(url) ==
    Let(FindFirst(url, {":"}, 1), LAMBDA colon :
        IF /\ colon <= Len(url)
           /\ colon > 1
           /\ url[1] \notin Digits \cup {"+","-","."}
           /\ \A i \in 1..(colon - 1) : url[i] \in SchemeChars
        THEN [found |-> TRUE,
              scheme |-> Lower(SubSeq(url, 1, colon - 1)),
              rest |-> SubSeq(url, colon + 1, Len(url))]
        ELSE [found |-> FALSE, scheme |-> << >>, rest |-> url])

\* urlsplit, _splitnetloc: the netloc after "//" up to the first of "/?#"
SplitNetloc(rest) ==
    IF StartsWith(rest, <<"/","/">>)
    THEN Let(FindFirst(rest, {"/","?","#"}, 3), LAMBDA delim :
             [netloc |-> SubSeq(rest, 3, delim - 1),
              rest |-> SubSeq(rest, delim, Len(rest))])
    ELSE [netloc |-> << >>, rest |-> rest]

\* url.split(c, 1): what precedes the first c and what follows it
SplitAt(rest, c) ==
    Let(FindFirst(rest, {c}, 1), LAMBDA at :
        [head |-> SubSeq(rest, 1, at - 1),
         tail |-> SubSeq(rest, at + 1, Len(rest))])

\* urlsplit(url, scheme=default): scheme, netloc, path, query, fragment
urlparse(url, default) ==
    Let(SplitScheme(url), LAMBDA s :
    Let(SplitNetloc(s.rest), LAMBDA n :
    Let(SplitAt(n.rest, "#"), LAMBDA f :
    Let(SplitAt(f.head, "?"), LAMBDA q :
        [scheme   |-> IF s.found THEN s.scheme ELSE default,
         netloc   |-> n.netloc,
         path     |-> q.head,
         query    |-> q.tail,
         fragment |-> f.tail]))))

\* urlunparse(parts)
urlunparse(p) ==
    LET withNetloc == IF p.netloc # << >>
                      THEN <<"/","/">> \o p.netloc \o p.path
                      ELSE p.path
        withScheme == IF p.scheme # << >>
                      THEN p.scheme \o <<":">> \o withNetloc
                      ELSE withNetloc
        withQuery  == IF p.query # << >>
                      THEN withScheme \o <<"?">> \o p.query
                      ELSE withScheme
    IN  IF p.fragment # << >>
        THEN withQuery \o <<"#">> \o p.fragment
        ELSE withQuery

\* the index of the last "/" of a path, 0 when there is none
LastSlash(path) ==
    IF \E i \in 1..Len(path) : path[i] = "/"
    THEN CHOOSE i \in 1..Len(path) :
             path[i] = "/" /\ \A j \in (i + 1)..Len(path) : path[j] # "/"
    ELSE 0

\* urljoin: the path of the reference merged with the path of the base
MergePaths(bpath, path) ==
    IF path[1] = "/" THEN path
    ELSE IF bpath = << >> THEN <<"/">> \o path
    ELSE SubSeq(bpath, 1, LastSlash(bpath)) \o path

\* urljoin(base, url), for references without "." and ".." segments
urljoin(base, url) ==
    IF base = << >> THEN url
    ELSE IF url = << >> THEN base
    ELSE
    Let(urlparse(base, << >>), LAMBDA b :
    Let(urlparse(url, b.scheme), LAMBDA u :
        IF u.scheme # b.scheme \/ u.scheme \notin UsesRelative THEN url
        ELSE IF u.netloc # << >> THEN urlunparse(u)
        ELSE IF u.path = << >>
        THEN urlunparse([scheme   |-> u.scheme,
                         netloc   |-> b.netloc,
                         path     |-> b.path,
                         query    |-> IF u.query = << >> THEN b.query ELSE u.query,
                         fragment |-> u.fragment])
        ELSE Let(MergePaths(b.path, u.path), LAMBDA merged :
                 urlunparse([scheme   |-> u.scheme,
                             netloc   |-> b.netloc,
                             path     |-> IF merged = << >> THEN <<"/">> ELSE merged,
                             query    |-> u.query,
                             fragment |-> u.fragment]))))

(***************************************************************************)
(* LinkExtractor: class data and pure helpers                              *)
(***************************************************************************)

EXCLUDED_EXTENSIONS ==
    << <<".","p","d","f">>, <<".","j","p","g">>, <<".","j","p","e","g">>,
       <<".","p","n","g">>, <<".","g","i","f">>, <<".","z","i","p">>,
       <<".","d","o","c">>, <<".","d","o","c","x">>, <<".","x","l","s">>,
       <<".","x","l","s","x">>, <<".","p","p","t">>, <<".","p","p","t","x">>,
       <<".","m","p","4">>, <<".","a","v","i">>, <<".","m","o","v">>,
       <<".","m","p","3">>, <<".","w","a","v">> >>

\* href.startswith(('javascript:', 'mailto:', 'tel:'))
NonNavigational(href) ==
    \/ StartsWith(href, <<"j","a","v","a","s","c","r","i","p","t",":">>)
    \/ StartsWith(href, <<"m","a","i","l","t","o",":">>)
    \/ StartsWith(href, <<"t","e","l",":">>)

\* _should_visit_link(url)
should_visit_link(url) ==
    IF Let(Lower(url), LAMBDA url_lower :
           \E i \in 1..Len(EXCLUDED_EXTENSIONS) :
               EndsWith(url_lower, EXCLUDED_EXTENSIONS[i]))
    THEN FALSE
    ELSE IF Let(SplitHead(url, "?"), LAMBDA head : Contains(head, <<"#">>))
    THEN FALSE
    ELSE TRUE

\* a host test that also accepts the subdomains of dom
same_domain_suffix(url, dom) ==
    Let(urlparse(url, << >>), LAMBDA parsed : EndsWith(parsed.netloc, dom))

\* urlparse(absolute_url).netloc == self.domain
same_domain(url, dom) == urlparse(url, << >>).netloc = dom

\* _extract_links_from_page(soup, current_url); anchors is the set of the
\* href attribute values of the page's <a href=...> elements
extract_links_from_page(anchors, current, dom) ==
    LET hrefs == { Strip(a) : a \in anchors }
        absolute_urls == { urljoin(current, href) :
                             href \in { h \in hrefs : h # << >> /\ ~NonNavigational(h) } }
    IN  { u \in absolute_urls : same_domain(u, dom) }

\* TARGET_MONTHS, in the dict's insertion order
TARGET_MONTHS ==
    << [name |-> "janvier",
        patterns |-> << <<"0","1">>, <<"1">>, <<"j","a","n","v","i","e","r">>,
                        <<"j","a","n","u","a","r","y">> >>],
       [name |-> "février",
        patterns |-> << <<"0","2">>, <<"2">>, <<"f","é","v","r","i","e","r">>,
                        <<"f","e","b","r","u","a","r","y">> >>],
       [name |-> "mars",
        patterns |-> << <<"0","3">>, <<"3">>, <<"m","a","r","s">>,
                        <<"m","a","r","c","h">> >>],
       [name |-> "novembre",
        patterns |-> << <<"1","1">>, <<"n","o","v","e","m","b","r","e">>,
                        <<"n","o","v","e","m","b","e","r">> >>],
       [name |-> "décembre",
        patterns |-> << <<"1","2">>, <<"d","é","c","e","m","b","r","e">>,
                        <<"d","e","c","e","m","b","e","r">> >>] >>

MonthNames == { TARGET_MONTHS[m].name : m \in 1..Len(TARGET_MONTHS) }

\* the pattern loop without its break
RECURSIVE PatternLoopNoBreak(_, _, _, _)
PatternLoopNoBreak(count, patterns, j, link) ==
    IF j > Len(patterns) THEN count
    ELSE Let(IF Let(Lower(link), LAMBDA lower : Contains(lower, patterns[j]))
             THEN count + 1 ELSE count,
             LAMBDA next : PatternLoopNoBreak(next, patterns, j + 1, link))

\* get_month_statistics, `for pattern in patterns` from the j-th pattern on:
\* the count of one month after the loop, which breaks at the first match
RECURSIVE PatternLoop(_, _, _, _)
PatternLoop(count, patterns, j, link) ==
    IF j > Len(patterns) THEN count
    ELSE IF Let(Lower(link), LAMBDA lower : Contains(lower, patterns[j]))
    THEN count + 1
    ELSE PatternLoop(count, patterns, j + 1, link)

\* get_month_statistics, `for month_name, patterns in TARGET_MONTHS.items()`
\* from the m-th month on: stats after the loop
RECURSIVE MonthLoop(_, _, _)
MonthLoop(st, m, link) ==
    IF m > Len(TARGET_MONTHS) THEN st
    ELSE Let([st EXCEPT ![TARGET_MONTHS[m].name] =
                  PatternLoop(st[TARGET_MONTHS[m].name],
                              TARGET_MONTHS[m].patterns, 1, link)],
             LAMBDA next : MonthLoop(next, m + 1, link))

\* the month codes (0?[1-3]|11|12) of the date patterns
MonthCodes ==
    { <<"0","1">>, <<"0","2">>, <<"0","3">>, <<"1">>, <<"2">>, <<"3">>,
      <<"1","1">>, <<"1","2">> }

\* the text of url from position i on is \d{4}, sep, a month code in codes, sep
DateSegmentAt(url, i, sep, codes) ==
    /\ i + 4 <= Len(url)
    /\ \A k \in i..(i + 3) : url[k] \in Digits
    /\ url[i + 4] = sep
    /\ \E code \in codes :
           /\ i + 5 + Len(code) <= Len(url)
           /\ SubSeq(url, i + 5, i + 4 + Len(code)) = code
           /\ url[i + 5 + Len(code)] = sep

\* re.search of one of date_patterns: with or without the leading "/"
DatePattern(url, leading, sep) ==
    \E i \in 1..Len(url) :
        /\ leading => (i > 1 /\ url[i - 1] = "/")
        /\ DateSegmentAt(url, i, sep, MonthCodes)

\* date_patterns, in the order of the list
date_patterns ==
    << [leading |-> TRUE,  sep |-> "/"], [leading |-> TRUE,  sep |-> "-"],
       [leading |-> FALSE, sep |-> "/"], [leading |-> FALSE, sep |-> "-"] >>

\* _contains_target_month(url)
contains_target_month(url) ==
    IF \E p \in 1..Len(date_patterns) :
           DatePattern(url, date_patterns[p].leading, date_patterns[p].sep)
    THEN TRUE
    ELSE Let(Lower(url), LAMBDA url_lower :
             IF \E m \in 1..Len(TARGET_MONTHS) :
                    \E j \in 1..Len(TARGET_MONTHS[m].patterns) :
                        Contains(url_lower, TARGET_MONTHS[m].patterns[j])
             THEN TRUE
             ELSE FALSE)

\* a list comprehension that puts each kept link in front
RECURSIVE FilterLoopPrepend(_, _, _)
FilterLoopPrepend(links, i, kept) ==
    IF i > Len(links) THEN kept
    ELSE Let(IF contains_target_month(links[i]) THEN <<links[i]>> \o kept ELSE kept,
             LAMBDA next : FilterLoopPrepend(links, i + 1, next))

\* [link for link in links if self._contains_target_month(link)] from the
\* i-th link on, kept being the list built so far
RECURSIVE FilterLoop(_, _, _)
FilterLoop(links, i, kept) ==
    IF i > Len(links) THEN kept
    ELSE Let(IF contains_target_month(links[i]) THEN Append(kept, links[i]) ELSE kept,
             LAMBDA next : FilterLoop(links, i + 1, next))

\* filter_links_by_months(links)
filter_links_by_months(links) == FilterLoop(links, 1, << >>)

(***************************************************************************)
(* The sites crawled: base URLs and the anchors a response may carry       *)
(***************************************************************************)

\* "http://a/"
UrlRoot == HTTP \o <<":","/","/","a","/">>

\* "http://a/#t"
UrlRootFrag == HTTP \o <<":","/","/","a","/","#","t">>

BaseURLs == {UrlRoot, UrlRootFrag}

Hrefs ==
    { <<"/","b">>,                               \* absolute path
      HTTP \o <<":","/","/","a","/","c">>,       \* absolute URL, same host
      <<"/","d",".","P","D","F">>,               \* a document
      <<"#","t">>,                               \* fragment of the page itself
      <<"/","/","s",".","a","/">>,               \* protocol-relative, subdomain
      HTTP \o <<":","/","/","b","/">>,           \* another host
      <<"m","a","i","l","t","o",":","x">>,       \* mail link
      <<" ","/"," ">> }                          \* padded link to the root

\* most anchors on one page
MaxAnchors == 2

Pages == { A \in SUBSET Hrefs : Cardinality(A) <= MaxAnchors }

SITE == <<"s","i","t","e",".","c","o","m","/">>

\* the URLs handed to get_month_statistics
SampleLinks ==
    { SITE \o <<"x">>,                                          \* no month
      SITE \o <<"M","A","R","S">>,                              \* one month
      SITE \o <<"j","a","n","v","i","e","r","-","m","a","r","s">>, \* two names
      SITE \o <<"2","0","2","4","-","0","1","-","a">>,
      SITE \o <<"2","0","2","4","-","1","2","-","b">>,
      SITE \o <<"n","o","v","e","m","b","e","r">> }

\* longest list handed to get_month_statistics
MaxLinks == 2

LinkLists == UNION { [1..n -> SampleLinks] : n \in 0..MaxLinks }

\* "https://site.com"
HTTPS_SITE == <<"h","t","t","p","s",":","/","/">> \o SubSeq(SITE, 1, 8)

UrlPaths ==
    { <<"/","r","e","p","o","r","t",".","P","D","F">>,
      <<"/","r",".","p","d","f">>,
      <<"/","2","0","2","4","/","0","3","/","i","n","d","e","x",".","h","t","m","l">>,
      <<"/","i",".","h","t","m","l">>,
      <<"/","2","0","2","4","/","0","7","/","n","e","w","s">>,
      <<"/","2","0","2","4","/","0","3","/","n","e","w","s">>,
      <<"/","b","l","o","g","/","n","o","v","e","m","b","r","e","-","n","e","w","s">>,
      <<"/","5","6","7","8","/","0","7","/","n">>,
      <<"/","5","6","7","8","-","0","3","-","n">>,
      <<"/","x">> }

UrlTails ==
    { << >>,
      <<"?","x","=","1">>,
      <<"?","f","=","a",".","p","d","f">>,
      <<"#","t">>,
      <<"?","q","#","t">> }

\* the URLs handed to _should_visit_link and _contains_target_month
SampleUrls == { HTTPS_SITE \o path \o tail : path \in UrlPaths, tail \in UrlTails }

\* the URLs handed to filter_links_by_months
FilterLinks ==
    SampleLinks \cup { HTTPS_SITE \o path : path \in
                         { <<"/","2","0","2","4","/","0","3","/","n","e","w","s">>,
                           <<"/","5","6","7","8","/","0","7","/","n">>,
                           <<"/","x">> } }

FilterLists == UNION { [1..n -> FilterLinks] : n \in 0..MaxLinks }

\* the orders in which `for link in new_links` can enumerate a set
Orderings(S) ==
    { s \in [1..Cardinality(S) -> S] :
        \A i, j \in 1..Cardinality(S) : i # j => s[i] # s[j] }

Range(s) == { s[i] : i \in 1..Len(s) }

\* a counter per URL, kept as a function on the URLs counted so far
Count(f, u) == IF u \in DOMAIN f THEN f[u] ELSE 0

Inc(f, u) == [x \in DOMAIN f \cup {u} |-> Count(f, x) + IF x = u THEN 1 ELSE 0]

IncAll(f, S) == [x \in DOMAIN f \cup S |-> Count(f, x) + IF x \in S THEN 1 ELSE 0]

Empty == [x \in {} |-> 0]

(***************************************************************************)
(* State                                                                   *)
(***************************************************************************)

VARIABLES
    base_url,      \* self.base_url
    domain,        \* self.domain
    pc,            \* position in get_all_domain_links
    visited,       \* visited
    to_visit,      \* to_visit
    all_links,     \* all_links
    page_count,    \* page_count
    current_url,   \* current_url
    attempts,      \* history: session.get calls per URL
    successes,     \* history: successful fetches per URL
    enters,        \* history: entries into to_visit per URL
    linked,        \* history: the links extracted from the pages fetched so far
    slept,         \* history: time.sleep ran since the last session.get
    fetched,       \* history: some session.get call was made
    offsite,       \* history: a fetched page carried a link to another host
    dist,          \* history: link distance from base_url of the URLs met so far
    main_links,    \* main: all_links, << >> until it is assigned
    filtered_links,\* get_month_statistics: its argument
    stats,         \* get_month_statistics: stats
    link_idx,      \* get_month_statistics: links of filtered_links done
    stats_pc,      \* position in get_month_statistics
    url_arg,       \* the url handed to _should_visit_link or _contains_target_month
    visit_result,  \* what _should_visit_link returned
    month_result,  \* what _contains_target_month returned
    url_pc,        \* which of the two was called
    filter_arg,    \* filter_links_by_months: the list object handed to it
    filter_orig,   \* history: the value of that list at the call
    filter_out,    \* filter_links_by_months(links)
    filter_out2,   \* filter_links_by_months of that result
    filter_pc      \* calls of filter_links_by_months made

crawlVars == <<base_url, domain, pc, visited, to_visit, all_links, page_count,
               current_url, attempts, successes, enters, linked, slept, fetched,
               offsite, dist, main_links>>

statsVars == <<filtered_links, stats, link_idx, stats_pc>>

urlVars == <<url_arg, visit_result, month_result, url_pc>>

filterVars == <<filter_arg, filter_orig, filter_out, filter_out2, filter_pc>>

pureVars == <<statsVars, urlVars, filterVars>>

vars == <<crawlVars, pureVars>>

NoUrl == << >>

\* no call of get_month_statistics is under way
StatsIdle ==
    /\ filtered_links = << >>
    /\ stats = [name \in MonthNames |-> 0]
    /\ link_idx = 0
    /\ stats_pc = "idle"

\* no call of _should_visit_link or _contains_target_month is under way
UrlIdle ==
    /\ url_arg = << >>
    /\ visit_result = "none"
    /\ month_result = "none"
    /\ url_pc = "idle"

\* no call of filter_links_by_months is under way
FilterIdle ==
    /\ filter_arg = << >>
    /\ filter_orig = << >>
    /\ filter_out = << >>
    /\ filter_out2 = << >>
    /\ filter_pc = "idle"

\* __init__(base_url, delay)
Constructed(url) ==
    /\ base_url = url
    /\ domain = urlparse(base_url, << >>).netloc
    /\ pc = "idle"
    /\ visited = {}
    /\ to_visit = << >>
    /\ all_links = {}
    /\ page_count = 0
    /\ current_url = NoUrl
    /\ attempts = Empty
    /\ successes = Empty
    /\ enters = Empty
    /\ linked = {}
    /\ slept = FALSE
    /\ fetched = FALSE
    /\ offsite = FALSE
    /\ dist = Empty
    /\ main_links = << >>

Init ==
    /\ \E url \in BaseURLs : Constructed(url)
    /\ StatsIdle
    /\ UrlIdle
    /\ FilterIdle

\* get_all_domain_links: the local initialisation before the loop
Begin ==
    /\ pc = "idle"
    /\ visited' = {}
    /\ to_visit' = <<base_url>>
    /\ all_links' = {}
    /\ page_count' = 0
    /\ enters' = Inc(enters, base_url)
    /\ dist' = [x \in {base_url} |-> 0]
    /\ pc' = "loop"
    /\ UNCHANGED <<base_url, domain, current_url, attempts, successes,
                   linked, slept, fetched>>
    /\ UNCHANGED <<offsite, main_links>>
    /\ UNCHANGED pureVars

\* reading to_visit[0] without removing it
peek_rest(queue) == queue

\* to_visit after to_visit.pop(0)
pop_rest(queue) == Tail(queue)

\* while to_visit: current_url = to_visit.pop(0); if current_url in visited: continue
PopHead ==
    /\ pc = "loop"
    /\ to_visit # << >>
    /\ current_url' = Head(to_visit)
    /\ to_visit' = pop_rest(to_visit)
    /\ pc' = IF Head(to_visit) \in visited THEN "loop" ELSE "fetch"
    /\ UNCHANGED <<base_url, domain, visited, all_links, page_count, attempts,
                   successes, enters, linked, slept, fetched>>
    /\ UNCHANGED <<offsite, dist, main_links>>
    /\ UNCHANGED pureVars

\* the for loop without `link not in visited`
AdmittedNoVisited(new_links, seen, queue) ==
    { link \in new_links :
        /\ link \notin Range(queue)
        /\ should_visit_link(link) }

\* the for loop without `link not in to_visit`
AdmittedNoQueue(new_links, seen, queue) ==
    { link \in new_links :
        /\ link \notin seen
        /\ should_visit_link(link) }

\* the for loop without the _should_visit_link test
AdmittedNoFilter(new_links, seen, queue) ==
    { link \in new_links :
        /\ link \notin seen
        /\ link \notin Range(queue) }

\* the for loop testing the links against all_links, already updated
AdmittedNotDiscovered(new_links, seen, queue) ==
    { link \in new_links :
        /\ link \notin seen \cup new_links
        /\ link \notin Range(queue)
        /\ should_visit_link(link) }

\* the links of new_links that the for loop appends to to_visit
Admitted(new_links, seen, queue) ==
    { link \in new_links :
        /\ link \notin seen
        /\ link \notin Range(queue)
        /\ should_visit_link(link) }

\* some navigational anchor of the page resolves to a host other than dom
OffSite(anchors, current, dom) ==
    \E href \in { Strip(a) : a \in anchors } :
        /\ href # << >>
        /\ ~NonNavigational(href)
        /\ \E u \in {urljoin(current, href)} : ~same_domain(u, dom)

\* a fetch that forgets the page
visited_keep(v, url) == v

\* visited.add(current_url)
visited_add(v, url) == v \cup {url}

\* all_links with the same-domain links that pass _should_visit_link only
all_links_update_visitable(all, new_links) ==
    all \cup { link \in new_links : should_visit_link(link) }

\* all_links.update(new_links)
all_links_update(all, new_links) == all \cup new_links

\* to_visit.insert(0, link) for each link of order
insert_front(queue, order) == order \o queue

\* to_visit.append(link) for each link of order
append_tail(queue, order) == queue \o order

\* the link distances once the page at distance d is known to link to new_links
Closer(f, new_links, d) ==
    [x \in DOMAIN f \cup new_links |->
        IF x \in DOMAIN f /\ f[x] <= d + 1 THEN f[x] ELSE d + 1]

\* session.get and raise_for_status succeed on a page carrying anchors:
\* the body of the try block up to the for loop's end
FetchSuccess ==
    /\ pc = "fetch"
    /\ \E anchors \in Pages :
         \E new_links \in {extract_links_from_page(anchors, current_url, domain)} :
             /\ visited' = visited_add(visited, current_url)
             /\ page_count' = page_count + 1
             /\ all_links' = all_links_update(all_links, new_links)
             /\ \E order \in Orderings(Admitted(new_links, visited', to_visit)) :
                  /\ to_visit' = append_tail(to_visit, order)
                  /\ enters' = IncAll(enters, Range(order))
             /\ linked' = linked \cup new_links
             /\ offsite' = (offsite \/ OffSite(anchors, current_url, domain))
             /\ dist' = Closer(dist, new_links, dist[current_url])
    /\ attempts' = Inc(attempts, current_url)
    /\ successes' = Inc(successes, current_url)
    /\ slept' = FALSE
    /\ fetched' = TRUE
    /\ pc' = "sleep"
    /\ UNCHANGED <<base_url, domain, current_url, main_links>>
    /\ UNCHANGED pureVars

\* an except clause that puts the failed URL back
except_requeue(queue, url) == queue \o <<url>>

\* to_visit after `except requests.RequestException: ... continue`
except_continue(queue, url) == queue

\* session.get or raise_for_status raises requests.RequestException:
\* logger.warning; continue
FetchFailure ==
    /\ pc = "fetch"
    /\ to_visit' = except_continue(to_visit, current_url)
    /\ attempts' = Inc(attempts, current_url)
    /\ slept' = FALSE
    /\ fetched' = TRUE
    /\ pc' = "loop"
    /\ UNCHANGED <<base_url, domain, visited, all_links, page_count,
                   current_url, successes, enters, linked>>
    /\ UNCHANGED <<offsite, dist, main_links>>
    /\ UNCHANGED pureVars

\* time.sleep(self.delay)
Sleep ==
    /\ pc = "sleep"
    /\ slept' = TRUE
    /\ pc' = "loop"
    /\ UNCHANGED <<base_url, domain, visited, to_visit, all_links, page_count,
                   current_url, attempts, successes, enters, linked, fetched>>
    /\ UNCHANGED <<offsite, dist, main_links>>
    /\ UNCHANGED pureVars

\* the loop ends: return list(all_links), which main binds to its all_links;
\* the list is kept as the set of its elements
Return ==
    /\ pc = "loop"
    /\ to_visit = << >>
    /\ main_links' = <<all_links>>
    /\ pc' = "done"
    /\ UNCHANGED <<base_url, domain, visited, to_visit, all_links, page_count,
                   current_url, attempts, successes, enters, linked, slept,
                   fetched>>
    /\ UNCHANGED <<offsite, dist>>
    /\ UNCHANGED pureVars

Next ==
    \/ Begin
    \/ PopHead
    \/ FetchSuccess
    \/ FetchFailure
    \/ Sleep
    \/ Return

Spec == Init /\ [][Next]_vars

\* KeyboardInterrupt raised inside get_all_domain_links: no handler in the
\* function, its frame is dropped, main's except clause logs and main ends
Interrupt ==
    /\ pc \in {"loop", "fetch", "sleep"}
    /\ pc' = "interrupted"
    /\ UNCHANGED <<base_url, domain, visited, to_visit, all_links, page_count,
                   current_url, attempts, successes, enters, linked, slept,
                   fetched>>
    /\ UNCHANGED <<offsite, dist, main_links>>
    /\ UNCHANGED pureVars

InterruptNext ==
    \/ Next
    \/ Interrupt

InterruptSpec == Init /\ [][InterruptNext]_vars

(***************************************************************************)
(* get_month_statistics on a list of links                                 *)
(***************************************************************************)

StatsInit ==
    /\ Constructed(UrlRoot)
    /\ filtered_links \in LinkLists
    /\ stats = [name \in MonthNames |-> 0]
    /\ link_idx = 0
    /\ stats_pc = "idle"
    /\ UrlIdle
    /\ FilterIdle

\* stats = {month: 0 for month in self.TARGET_MONTHS.keys()}
StatsBegin ==
    /\ stats_pc = "idle"
    /\ stats' = [name \in MonthNames |-> 0]
    /\ link_idx' = 0
    /\ stats_pc' = "loop"
    /\ UNCHANGED filtered_links
    /\ UNCHANGED <<crawlVars, urlVars, filterVars>>

\* one iteration of `for link in filtered_links`
StatsLink ==
    /\ stats_pc = "loop"
    /\ link_idx < Len(filtered_links)
    /\ stats' = MonthLoop(stats, 1, filtered_links[link_idx + 1])
    /\ link_idx' = link_idx + 1
    /\ UNCHANGED <<filtered_links, stats_pc>>
    /\ UNCHANGED <<crawlVars, urlVars, filterVars>>

\* return stats
StatsReturn ==
    /\ stats_pc = "loop"
    /\ link_idx = Len(filtered_links)
    /\ stats_pc' = "done"
    /\ UNCHANGED <<filtered_links, stats, link_idx>>
    /\ UNCHANGED <<crawlVars, urlVars, filterVars>>

StatsNext ==
    \/ StatsBegin
    \/ StatsLink
    \/ StatsReturn

StatsSpec == StatsInit /\ [][StatsNext]_vars

(***************************************************************************)
(* _should_visit_link and _contains_target_month on one URL                *)
(***************************************************************************)

UrlInit ==
    /\ Constructed(UrlRoot)
    /\ StatsIdle
    /\ FilterIdle
    /\ url_arg \in SampleUrls
    /\ visit_result = "none"
    /\ month_result = "none"
    /\ url_pc = "idle"

\* self._should_visit_link(url)
CallShouldVisit ==
    /\ url_pc = "idle"
    /\ visit_result' = should_visit_link(url_arg)
    /\ url_pc' = "visit"
    /\ UNCHANGED <<url_arg, month_result>>
    /\ UNCHANGED <<crawlVars, statsVars, filterVars>>

\* self._contains_target_month(url)
CallContainsMonth ==
    /\ url_pc = "idle"
    /\ month_result' = contains_target_month(url_arg)
    /\ url_pc' = "month"
    /\ UNCHANGED <<url_arg, visit_result>>
    /\ UNCHANGED <<crawlVars, statsVars, filterVars>>

UrlNext ==
    \/ CallShouldVisit
    \/ CallContainsMonth

UrlSpec == UrlInit /\ [][UrlNext]_vars

(***************************************************************************)
(* filter_links_by_months on a list of links, and again on its result      *)
(***************************************************************************)

FilterInit ==
    /\ Constructed(UrlRoot)
    /\ StatsIdle
    /\ UrlIdle
    /\ filter_arg \in FilterLists
    /\ filter_orig = filter_arg
    /\ filter_out = << >>
    /\ filter_out2 = << >>
    /\ filter_pc = "idle"

\* filtered_links = extractor.filter_links_by_months(links)
FilterCall ==
    /\ filter_pc = "idle"
    /\ filter_out' = filter_links_by_months(filter_arg)
    /\ filter_pc' = "once"
    /\ UNCHANGED <<filter_arg, filter_orig, filter_out2>>
    /\ UNCHANGED <<crawlVars, statsVars, urlVars>>

\* extractor.filter_links_by_months(filtered_links)
FilterAgain ==
    /\ filter_pc = "once"
    /\ filter_out2' = filter_links_by_months(filter_out)
    /\ filter_pc' = "twice"
    /\ UNCHANGED <<filter_arg, filter_orig, filter_out>>
    /\ UNCHANGED <<crawlVars, statsVars, urlVars>>

FilterNext ==
    \/ FilterCall
    \/ FilterAgain

FilterSpec == FilterInit /\ [][FilterNext]_vars


(***************************************************************************)
(* Properties of the crawl loop                                            *)
(***************************************************************************)

\* the URLs the crawl has come across
Known ==
    DOMAIN attempts \cup DOMAIN enters \cup all_links \cup visited
        \cup Range(to_visit) \cup linked

Failures(u) == Count(attempts, u) - Count(successes, u)

\* C1: in every state of the crawl loop no URL is both in visited and in
\* the frontier to_visit.
C1_VisitedFrontierDisjoint == visited \cap Range(to_visit) = {}

C1_Witness ==
    /\ visited # {}
    /\ to_visit # << >>
    /\ \E u \in visited : u \in linked

\* C2 as stated: every URL is the target of at most one fetch attempt,
\* successful or not.
C2_AtMostOneAttempt == \A u \in Known : Count(attempts, u) <= 1

\* C2 amended: every URL is fetched successfully at most once and is never
\* attempted again after a successful fetch; only a URL whose attempts all
\* failed can be attempted again.
C2_AtMostOneSuccess ==
    [][\A u \in Known \cup DOMAIN attempts' :
           /\ Count(successes', u) <= 1
           /\ (u \in visited => Count(attempts', u) = Count(attempts, u))]_vars

C2_Witness ==
    \E u \in visited : Count(attempts, u) >= 2 /\ Count(successes, u) = 1

\* C3 as stated: when the loop has ended, every same-domain URL that passes
\* _should_visit_link and is linked from a successfully fetched page is in
\* visited, was fetched successfully exactly once, and is in all_links.
C3_ReachableVisitedOnce ==
    pc = "done" =>
        \A u \in linked :
            (same_domain(u, urlparse(base_url, << >>).netloc) /\ should_visit_link(u)) =>
                /\ u \in visited
                /\ Count(successes, u) = 1
                /\ u \in all_links

\* C3 amended: when the loop has ended, every such URL is in all_links and
\* was attempted at least once; it is in visited, fetched successfully
\* exactly once, unless every attempt on it failed.
C3_ReachableAttempted ==
    pc = "done" =>
        \A u \in linked :
            (same_domain(u, urlparse(base_url, << >>).netloc) /\ should_visit_link(u)) =>
                /\ u \in all_links
                /\ Count(attempts, u) >= 1
                /\ \/ u \in visited /\ Count(successes, u) = 1
                   \/ u \notin visited /\ Count(successes, u) = 0

C3_Witness ==
    /\ pc = "done"
    /\ \E u \in linked : u \notin visited /\ should_visit_link(u)
    /\ \E u \in linked : u \in visited /\ u # base_url

\* C4: the crawl loop terminates: it reaches the state in which the frontier
\* is empty and the function returns, whatever fetches succeed or fail.
C4_Terminates == <>(pc = "done")

C4_Witness ==
    /\ pc = "done"
    /\ to_visit = << >>
    /\ \E u \in Known : Count(attempts, u) >= 2

\* the scheduling of a sequential program: a step that can be taken is taken
LiveSpec == Spec /\ WF_vars(Next)

\* C5: a failed fetch leaves visited, all_links and the frontier as they
\* were, does not put the failed URL back, and goes on with the loop.
C5_FailureAbandonsUrl ==
    [][(attempts' # attempts /\ successes' = successes) =>
           /\ visited' = visited
           /\ all_links' = all_links
           /\ to_visit' = to_visit
           /\ current_url \notin Range(to_visit')
           /\ current_url \notin visited'
           /\ pc' = "loop"]_vars

C5_Witness ==
    /\ pc = "loop"
    /\ fetched
    /\ ~slept
    /\ Failures(current_url) >= 1
    /\ to_visit # << >>

\* C6 as stated: no URL enters the frontier a second time while it is not
\* in visited.
C6_EntersOnceBeforeVisited ==
    \A u \in Known : u \notin visited => Count(enters, u) <= 1

\* C6 amended: a URL enters the frontier at most once more than the number
\* of failed fetch attempts on it: a second entry happens only after an
\* attempt on it failed, never while it is in the frontier or in visited.
C6_EntersOncePerFailure ==
    \A u \in Known : Count(enters, u) <= 1 + Failures(u)

C6_Witness ==
    \E u \in Known : Count(enters, u) >= 2 /\ u \in Range(to_visit)

\* the excluded URLs among those the crawl has come across
Excluded == { u \in Known : ~should_visit_link(u) }

\* C7 as stated: a URL for which _should_visit_link is false never enters
\* the frontier and is never fetched.
C7_ExcludedNeverFetched ==
    \A u \in Excluded :
        /\ Count(enters, u) = 0
        /\ Count(attempts, u) = 0
        /\ u \notin Range(to_visit)

\* C7 amended: a URL other than the base URL for which _should_visit_link
\* is false never enters the frontier and is never fetched; the base URL is
\* seeded and fetched whether excluded or not.
C7_ExcludedLinkNeverFetched ==
    \A u \in Excluded \ {base_url} :
        /\ Count(enters, u) = 0
        /\ Count(attempts, u) = 0
        /\ u \notin Range(to_visit)
        /\ u \notin visited

C7_Witness ==
    /\ pc = "done"
    /\ \E u \in all_links : ~should_visit_link(u) /\ u # base_url

\* C8: every URL in all_links, in the frontier and in visited, and every
\* URL fetched, has exactly the host of the base URL.
C8_SameHost ==
    \A u \in Known :
        urlparse(u, << >>).netloc = urlparse(base_url, << >>).netloc

C8_Witness ==
    /\ offsite
    /\ all_links # {}
    /\ to_visit # << >>

\* C9: every fetch attempt after the first one is preceded by a time.sleep
\* since the attempt before it, whether that attempt succeeded or failed.
C9_DelayBetweenAttempts ==
    [][(attempts' # attempts /\ fetched) => slept]_vars

(***************************************************************************)
(* Properties of get_month_statistics                                      *)
(***************************************************************************)

RECURSIVE SumStats(_)
SumStats(m) ==
    IF m = 0 THEN 0 ELSE stats[TARGET_MONTHS[m].name] + SumStats(m - 1)

\* some token of the m-th month occurs in the lowercased link
MonthMatches(m, link) ==
    \E lower \in {Lower(link)} :
        \E j \in 1..Len(TARGET_MONTHS[m].patterns) :
            Contains(lower, TARGET_MONTHS[m].patterns[j])

OtherMonthCodes ==
    { <<"0","4">>, <<"0","5">>, <<"0","6">>, <<"0","7">>, <<"0","8">>,
      <<"0","9">>, <<"1","0">>,
      <<"4">>, <<"5">>, <<"6">>, <<"7">>, <<"8">>, <<"9">> }

\* url has a date segment YYYY/MM/ or YYYY-MM- whose MM is in codes
HasDateSegment(url, codes) ==
    \E sep \in {"/", "-"} :
        \E i \in 1..Len(url) : DateSegmentAt(url, i, sep, codes)

\* the tokens of the m-th month that are names, not numbers
MonthNameTokens(m) ==
    { TARGET_MONTHS[m].patterns[j] : j \in
        { k \in 1..Len(TARGET_MONTHS[m].patterns) :
            \E c \in 1..Len(TARGET_MONTHS[m].patterns[k]) :
                TARGET_MONTHS[m].patterns[k][c] \notin Digits } }

\* the lowercased url contains the name of a target month
HasMonthName(url) ==
    \E lower \in {Lower(url)} :
        \E m \in 1..Len(TARGET_MONTHS) :
            \E token \in MonthNameTokens(m) : Contains(lower, token)

\* C11: _contains_target_month is false for a URL whose only date segment has
\* a month from April to October and which holds no month name, and true for
\* a URL with a date segment of a target month or with a month name.
C11_OnlyTargetMonthsMatch ==
    url_pc = "month" =>
        /\ (/\ HasDateSegment(url_arg, OtherMonthCodes)
            /\ ~HasDateSegment(url_arg, MonthCodes)
            /\ ~HasMonthName(url_arg)) => month_result = FALSE
        /\ (HasDateSegment(url_arg, MonthCodes) \/ HasMonthName(url_arg))
               => month_result = TRUE

\* the lowercased path component of url ends with an excluded extension
PathHasExcludedExtension(url) ==
    \E path \in {Lower(urlparse(url, << >>).path)} :
        \E i \in 1..Len(EXCLUDED_EXTENSIONS) : EndsWith(path, EXCLUDED_EXTENSIONS[i])

\* url has a "#" with no "?" before it
HashBeforeQuery(url) ==
    \E i \in 1..Len(url) :
        url[i] = "#" /\ \A j \in 1..(i - 1) : url[j] # "?"

\* C12: _should_visit_link returns false exactly for the URLs whose path
\* ends, whatever the case, with an excluded extension or which have a "#"
\* before the query string; a query string changes nothing.
C12_ExcludedIffPathExtension ==
    url_pc = "visit" =>
        ((visit_result = FALSE) <=>
            (PathHasExcludedExtension(url_arg) \/ HashBeforeQuery(url_arg)))

(***************************************************************************)
(* Properties of get_month_statistics and filter_links_by_months           *)
(***************************************************************************)

\* the tokens of the m-th month that are numbers
MonthNumberTokens(m) ==
    { TARGET_MONTHS[m].patterns[j] : j \in 1..Len(TARGET_MONTHS[m].patterns) }
        \ MonthNameTokens(m)

\* the positions of link where a date segment YYYY-MM- of a target month starts
DashSegments(link) ==
    { i \in 1..Len(link) : DateSegmentAt(link, i, "-", MonthCodes) }

\* link carries exactly one date segment YYYY-MM- of a target month and no
\* month name
SingleDashDate(link) ==
    /\ Cardinality(DashSegments(link)) = 1
    /\ ~HasMonthName(link)

\* the date segment YYYY-MM- of link is of the m-th month
DashDateOfMonth(link, m) ==
    \E i \in DashSegments(link) : DateSegmentAt(link, i, "-", MonthNumberTokens(m))

\* C13: on links that each carry exactly one date segment YYYY-MM- of a
\* target month and no month name, get_month_statistics counts each link
\* under the month MM only; the other months stay at 0.
C13_CountsTheDatedMonth ==
    (/\ stats_pc = "done"
     /\ \A i \in 1..Len(filtered_links) : SingleDashDate(filtered_links[i])) =>
        \A m \in 1..Len(TARGET_MONTHS) :
            stats[TARGET_MONTHS[m].name] =
                Cardinality({ i \in 1..Len(filtered_links) :
                                DashDateOfMonth(filtered_links[i], m) })

\* the positions of links whose link _contains_target_month accepts
KeptPositions(links) ==
    { i \in 1..Len(links) : contains_target_month(links[i]) }

\* out is links restricted to the positions kept, in the order of links
IsSubsequenceAt(out, links, kept) ==
    /\ Len(out) = Cardinality(kept)
    /\ \E f \in [1..Len(out) -> kept] :
           /\ \A a, b \in 1..Len(out) : a < b => f[a] < f[b]
           /\ \A a \in 1..Len(out) : out[a] = links[f[a]]

\* C15: filter_links_by_months returns the links of its argument that
\* _contains_target_month accepts, in the argument's order, leaves the
\* argument as it was, and applied to its own result returns that result.
C15_FilterSubsequenceIdempotent ==
    /\ filter_pc # "idle" =>
           /\ filter_arg = filter_orig
           /\ IsSubsequenceAt(filter_out, filter_orig, KeptPositions(filter_orig))
    /\ filter_pc = "twice" => filter_out2 = filter_out

C15_Witness ==
    /\ filter_pc = "twice"
    /\ Len(filter_out) >= 1
    /\ Len(filter_out) < Len(filter_orig)


(***************************************************************************)
(* Properties of the crawl, continued                                      *)
(***************************************************************************)

\* C14: after an operator interrupt in the crawl loop, the links discovered
\* so far are held by main for filtering and saving.
C14_InterruptKeepsLinks ==
    (pc = "interrupted" /\ all_links # {}) => main_links = <<all_links>>

\* a step consumes the head of the frontier, extends its tail, or leaves it
FifoStep ==
    \/ pc = "idle"
    \/ to_visit' = to_visit
    \/ /\ to_visit # << >>
       /\ to_visit' = Tail(to_visit)
       /\ current_url' = Head(to_visit)
    \/ /\ Len(to_visit') > Len(to_visit)
       /\ SubSeq(to_visit', 1, Len(to_visit)) = to_visit

\* the URL about to be attempted is at least as far from base_url as the
\* URL attempted before it
LevelStep ==
    (pc = "loop" /\ pc' = "fetch" /\ current_url # NoUrl) =>
        dist[current_url'] >= dist[current_url]

\* no session.get call has failed so far
NoFailure == \A u \in DOMAIN attempts : attempts[u] = Count(successes, u)

C17_VisitedNeverReenters ==
    [][/\ ~(pc = "loop" /\ pc' = "loop")
       /\ \A u \in visited :
            /\ Count(enters', u) = Count(enters, u)
            /\ Count(attempts', u) = Count(attempts, u)
            /\ u \notin Range(to_visit')]_vars

C17_Witness ==
    /\ pc = "done"
    /\ Cardinality(visited) >= 2
    /\ \E u \in DOMAIN attempts : attempts[u] > Count(successes, u)
    /\ \A u \in visited : u \in linked /\ enters[u] = 1

\* C18: to_visit holds each URL at most once.
C18_FrontierNoDuplicates ==
    \A i, j \in 1..Len(to_visit) : i # j => to_visit[i] # to_visit[j]

C18_Witness ==
    /\ Len(to_visit) >= 2
    /\ Cardinality(visited) >= 2
    /\ \E u \in Range(to_visit) : enters[u] = 2

====
